---- MODULE Spec2Model ----
(***************************************************************************)
(* Model of lxd_vm.py: one run of test_lxd_vm, from the construction of    *)
(* the LXDTest object to the exit of the process.                          *)
(*                                                                         *)
(* The program is sequential.  Each action is one interaction of the       *)
(* program with its environment (one external command run by RunCommand,   *)
(* one urlretrieve fetch, the exit of the process) together with all the   *)
(* local computation up to the next interaction.  The outcome of every     *)
(* interaction is chosen by the environment.                               *)
(***************************************************************************)
EXTENDS Naturals, Sequences, FiniteSets

VARIABLES
    pc,                \* position of the run in the program
    template_url,      \* LXDTest.template_url
    rootfs_url,        \* LXDTest.rootfs_url
    template_tarball,  \* LXDTest.template_tarball
    rootfs_tarball,    \* LXDTest.rootfs_tarball
    os_version,        \* LXDTest.os_version
    files,             \* regular files on the local disk (os.path.isfile)
    result,            \* the local variable result of setup()
    retry,             \* the local variable retry of setup()
    run_result,        \* the local variable result of test_lxd_vm
    cleanups,          \* number of calls of cleanup() so far
    exit_status,       \* exit status of the process
    printed,           \* the PASS / FAIL line printed by test_lxd_vm
    log                \* the commands and fetches issued so far, in order

vars == <<pc, template_url, rootfs_url, template_tarball, rootfs_tarball,
          os_version, files, result, retry, run_result, cleanups,
          exit_status, printed, log>>

(***************************************************************************)
(* Values.  A Python value that is None, False, a filesystem path or a URL *)
(* is a record [kind, path]; path is the sequence of the segments between  *)
(* the '/' of the path component (empty for None and False).               *)
(***************************************************************************)
None == [kind |-> "None", path |-> <<>>]

False == [kind |-> "False", path |-> <<>>]

PathOf(segs) == [kind |-> "path", path |-> segs]

UrlOf(segs) == [kind |-> "url", path |-> segs]

\* Directories and file names the locators of a run are drawn from.
Dirs == {"tmp", "srv"}

Bases == {"t.tar", "r.tar"}

Paths == {<<d, b>> : d \in Dirs, b \in Bases}

\* A locator is a bare filesystem path or a URL with a scheme and a host.
Locators == {PathOf(p) : p \in Paths} \cup {UrlOf(p) : p \in Paths}

\* Release identifiers of the host.
Releases == {"focal", "jammy"}

\* urlparse(url).path.split('/')[-1]
targetfile(url) == url.path[Len(url.path)]

\* os.path.join('/tmp', targetfile)
filename(url) == PathOf(<<"tmp", targetfile(url)>>)

\* os.path.isfile(f)
isfile(f) == f.kind = "path" /\ f.path \in files

\* "if not x" for x a tarball value: None and False are falsy, a path is not
truthy(x) == x.kind \notin {"None", "False"}

(***************************************************************************)
(* The log.                                                                *)
(***************************************************************************)
Entry(op, out, a, b) == [op |-> op, out |-> out, a |-> a, b |-> b]

Issued(op) == {i \in 1..Len(log) : log[i].op = op}

Count(op) == Cardinality(Issued(op))

\* Outcomes of RunCommand: exit status 0, exit status nonzero, or Popen /
\* shlex.split raising (no such executable, fork failure, bad quoting).
CommandOutcomes == {"ok", "fail", "raise"}

\* get_release_to_test(): the release identifier of the host.  lxd_vm.py
\* calls it and does not define it.
get_release_to_test == Releases

Init ==
    /\ pc = "construct"
    /\ template_url \in Locators \cup {None}
    /\ rootfs_url \in Locators \cup {None}
    /\ template_tarball = None
    /\ rootfs_tarball = None
    /\ os_version = "unset"
    /\ files \in SUBSET Paths
    /\ result = TRUE
    /\ retry = 0
    /\ run_result = "unset"
    /\ cleanups = 0
    /\ exit_status = 0
    /\ printed = "none"
    /\ log = <<>>

\* An uncaught exception: the interpreter prints the traceback and exits 1.
Crash ==
    /\ pc' = "crashed"
    /\ exit_status' = 1

\* lxd_test = LXDTest(template, rootfs)
Construct ==
    /\ pc = "construct"
    /\ pc' = "lxd_init"
    /\ os_version' \in get_release_to_test
    /\ UNCHANGED <<template_url, rootfs_url, template_tarball, rootfs_tarball,
                   files, result, retry, run_result, cleanups, exit_status,
                   printed, log>>

\* Outcomes of urllib.request.urlretrieve(url, filename).  A string without
\* a scheme makes urlopen raise ValueError ("unknown url type"), which
\* download_images catches.  For a URL: the file is written; an exception of
\* the caught classes is raised; or the call returns and the file is not on
\* disk when download_images looks for it.
urlretrieve(url) ==
    IF url.kind = "url" THEN {"written", "error", "lost"} ELSE {"error"}

\* The files on disk after urlretrieve(url, f) ended with outcome out.
FilesAfter(out, f) == IF out = "written" THEN files \cup {f.path} ELSE files

\* Variant of download_images: without the "if not os.path.isfile(filename)"
\* after the fetch.
download_images_NoRecheck(out, f, disk) ==
    IF out = "error" THEN False ELSE f

\* The value download_images(url, f) returns, given the outcome of
\* urlretrieve and the files on disk after it.
download_images(out, f, disk) ==
    IF out = "error" THEN False
    ELSE IF f.path \notin disk THEN False
    ELSE f

\* Variant of NeedsFetch: the cache is not consulted.
NeedsFetch_Always(url) == TRUE

\* "if not os.path.isfile(filename)": the locator has to be fetched.
NeedsFetch(url) == ~isfile(filename(url))

\* Variant of while_cond: "while retry > 0", the loop goes on after a success.
while_cond_NoStop(res, n) == n > 0

\* "while not result and retry > 0"
while_cond(res, n) == ~res /\ n > 0

\* Variant of RetryBudget: one more retry.
RetryBudget_OneMore == 2 + 1

\* "retry = 2"
RetryBudget == 2

\* Both locators given: the local-pair import; otherwise the remote copy.
LocalPair == template_url # None /\ rootfs_url # None

\* The image source of 'lxc image copy': default_remote + os_version.
RemoteImage == [kind |-> "remote", path |-> <<"ubuntu:", os_version>>]

\* Variant of SetupReturns: a failed setup goes to the deletes of cleanup
\* without start_vm having returned its result.
SetupReturns_CleanupEarly(res) ==
    /\ pc' = IF res THEN "launch" ELSE "image_delete"
    /\ run_result' = run_result

\* Variant of SetupReturns: start_vm goes on to the launch whatever setup
\* returned.
SetupReturns_IgnoreResult(res) ==
    /\ pc' = "launch"
    /\ run_result' = run_result

\* setup() returns res to start_vm: "if not result: return False", else on
\* to the launch.  start_vm returning hands control to cleanup().
SetupReturns(res) ==
    /\ pc' = IF res THEN "launch" ELSE "image_delete"
    /\ run_result' = IF res THEN run_result ELSE "False"

\* Variant of command_result: "result = result and self.run_command(cmd)".
command_result_Sticky(prev, out) == prev /\ out = "ok"

\* "result = self.run_command(cmd)": the value the import or the copy leaves
\* in result, given the value prev that result had before.
command_result(prev, out) == (out = "ok")

\* setup(): 'lxd init --auto'
SetupInit ==
    /\ pc = "lxd_init"
    /\ \E out \in CommandOutcomes :
         /\ log' = Append(log, Entry("lxd init", out, None, None))
         /\ IF out = "raise"
            THEN /\ Crash
                 /\ UNCHANGED result
            ELSE /\ pc' = "template"
                 /\ result' = (out = "ok")
                 /\ UNCHANGED exit_status
    /\ UNCHANGED <<template_url, rootfs_url, template_tarball, rootfs_tarball,
                   os_version, files, retry, run_result, cleanups, printed>>

\* setup(): "if self.template_url is not None: ..."
ResolveTemplate ==
    /\ pc = "template"
    /\ pc' = "rootfs"
    /\ IF template_url = None
       THEN UNCHANGED <<template_tarball, files, result, log>>
       ELSE IF NeedsFetch(template_url)
       THEN \E out \in urlretrieve(template_url) :
              LET f == filename(template_url)
                  disk == FilesAfter(out, f)
                  got == download_images(out, f, disk)
              IN /\ log' = Append(log, Entry("fetch", out, template_url, f))
                 /\ files' = disk
                 /\ template_tarball' = got
                 /\ result' = IF truthy(got) THEN result ELSE FALSE
       ELSE /\ template_tarball' = filename(template_url)
            /\ UNCHANGED <<files, result, log>>
    /\ UNCHANGED <<template_url, rootfs_url, rootfs_tarball, os_version,
                   retry, run_result, cleanups, exit_status, printed>>

\* setup(): "if self.rootfs_url is not None: ..."
ResolveRootfs ==
    /\ pc = "rootfs"
    /\ pc' = "insert"
    /\ IF rootfs_url = None
       THEN UNCHANGED <<rootfs_tarball, files, result, log>>
       ELSE IF NeedsFetch(rootfs_url)
       THEN \E out \in urlretrieve(rootfs_url) :
              LET f == filename(rootfs_url)
                  disk == FilesAfter(out, f)
                  got == download_images(out, f, disk)
              IN /\ log' = Append(log, Entry("fetch", out, rootfs_url, f))
                 /\ files' = disk
                 /\ rootfs_tarball' = got
                 /\ result' = IF truthy(got) THEN result ELSE FALSE
       ELSE /\ rootfs_tarball' = filename(rootfs_url)
            /\ UNCHANGED <<files, result, log>>
    /\ UNCHANGED <<template_url, rootfs_url, template_tarball, os_version,
                   retry, run_result, cleanups, exit_status, printed>>

\* setup(): "# Insert images": the local-pair import, or the first attempt
\* of the copy from the default remote.
InsertImages ==
    /\ pc = "insert"
    /\ \E out \in CommandOutcomes :
         /\ IF LocalPair
            THEN /\ log' = Append(log, Entry("image import", out,
                                             template_tarball, rootfs_tarball))
                 /\ UNCHANGED retry
            ELSE /\ log' = Append(log, Entry("image copy", out,
                                             RemoteImage, None))
                 /\ retry' = RetryBudget
         /\ IF out = "raise"
            THEN /\ Crash
                 /\ UNCHANGED <<result, run_result>>
            ELSE /\ result' = command_result(result, out)
                 /\ UNCHANGED exit_status
                 /\ IF ~LocalPair /\ while_cond(result', retry')
                    THEN /\ pc' = "retry"
                         /\ UNCHANGED run_result
                    ELSE SetupReturns(result')
    /\ UNCHANGED <<template_url, rootfs_url, template_tarball, rootfs_tarball,
                   os_version, files, cleanups, printed>>

\* setup(): one iteration of the while loop of the copy.
RetryCopy ==
    /\ pc = "retry"
    /\ \E out \in CommandOutcomes :
         /\ log' = Append(log, Entry("image copy", out, RemoteImage, None))
         /\ IF out = "raise"
            THEN /\ Crash
                 /\ UNCHANGED <<result, retry, run_result>>
            ELSE /\ result' = command_result(result, out)
                 /\ retry' = retry - 1
                 /\ UNCHANGED exit_status
                 /\ IF while_cond(result', retry')
                    THEN /\ pc' = "retry"
                         /\ UNCHANGED run_result
                    ELSE SetupReturns(result')
    /\ UNCHANGED <<template_url, rootfs_url, template_tarball, rootfs_tarball,
                   os_version, files, cleanups, printed>>

\* Variant of StartVmStep: "self.run_command(cmd)" without the test of its
\* value, a nonzero exit status is treated like 0.
StartVmStep_Unchecked(at, op, next) ==
    /\ pc = at
    /\ \E out \in CommandOutcomes :
         /\ log' = Append(log, Entry(op, out, None, None))
         /\ IF out = "raise"
            THEN /\ Crash
                 /\ UNCHANGED run_result
            ELSE /\ UNCHANGED exit_status
                 /\ IF next = "return"
                    THEN /\ pc' = "image_delete"
                         /\ run_result' = "True"
                    ELSE /\ pc' = next
                         /\ UNCHANGED run_result
    /\ UNCHANGED <<template_url, rootfs_url, template_tarball, rootfs_tarball,
                   os_version, files, result, retry, cleanups, printed>>

\* One "if not self.run_command(cmd): return False" of start_vm: the command
\* op is issued at position at; exit status 0 leads to position next, or to
\* "return True" when the command is the last one.
StartVmStep(at, op, next) ==
    /\ pc = at
    /\ \E out \in CommandOutcomes :
         /\ log' = Append(log, Entry(op, out, None, None))
         /\ CASE out = "raise" -> /\ Crash
                                  /\ UNCHANGED run_result
              [] out = "fail" -> /\ pc' = "image_delete"
                                 /\ run_result' = "False"
                                 /\ UNCHANGED exit_status
              [] out = "ok" -> /\ UNCHANGED exit_status
                               /\ IF next = "return"
                                  THEN /\ pc' = "image_delete"
                                       /\ run_result' = "True"
                                  ELSE /\ pc' = next
                                       /\ UNCHANGED run_result
    /\ UNCHANGED <<template_url, rootfs_url, template_tarball, rootfs_tarball,
                   os_version, files, result, retry, cleanups, printed>>

\* start_vm(): 'lxc launch <alias> <name> -vm'
Launch == StartVmStep("launch", "launch", "start")

\* start_vm(): 'lxc start <name>'
StartInstance == StartVmStep("start", "start", "list")

\* Variant of ListInstances: the listing is run for the log only and its
\* exit status is not tested.
ListInstances_Unchecked == StartVmStep_Unchecked("list", "list", "exec")

\* start_vm(): 'lxc list'
ListInstances == StartVmStep("list", "list", "exec")

\* Variant of Exec: the first probe that exits 0 is followed by another
\* probe instead of "return True".
Exec_NoBreak ==
    /\ pc = "exec"
    /\ \E out \in CommandOutcomes :
         /\ log' = Append(log, Entry("exec", out, None, None))
         /\ CASE out = "raise" -> /\ Crash
                                  /\ UNCHANGED run_result
              [] out = "fail" -> /\ pc' = "image_delete"
                                 /\ run_result' = "False"
                                 /\ UNCHANGED exit_status
              [] out = "ok" -> /\ UNCHANGED exit_status
                               /\ IF Count("exec") >= 1
                                  THEN /\ pc' = "image_delete"
                                       /\ run_result' = "True"
                                  ELSE /\ pc' = "exec"
                                       /\ UNCHANGED run_result
    /\ UNCHANGED <<template_url, rootfs_url, template_tarball, rootfs_tarball,
                   os_version, files, result, retry, cleanups, printed>>

\* start_vm(): 'lxc exec <name> dd ...', the probe of the guest
Exec == StartVmStep("exec", "exec", "return")

\* Variant of AfterDelete: a failed image-delete ends cleanup.
AfterDelete_StopOnFailure(at, out) ==
    IF at = "image_delete" /\ out = "ok" THEN "instance_delete" ELSE "report"

\* The state of the instance <name> in the daemon after the first n entries
\* of the log, by the verbs of the commands start_vm and cleanup issue:
\* 'lxc launch' creates the instance and starts it ('lxc init' is the verb
\* that creates without starting), 'lxc start' starts it, 'lxc delete
\* --force' stops and removes it.  A command that did not exit 0 leaves the
\* state as it was.
RECURSIVE InstanceAfter(_)
InstanceAfter(n) ==
    IF n = 0 THEN "absent"
    ELSE LET e == log[n]
             before == InstanceAfter(n - 1)
         IN CASE e.op = "launch" /\ e.out = "ok" -> "running"
              [] e.op = "start" /\ e.out = "ok" /\ before # "absent" ->
                     "running"
              [] e.op = "delete" /\ e.out = "ok" -> "absent"
              [] OTHER -> before

\* The position after a delete of cleanup() that exited with out.
AfterDelete(at, out) ==
    IF at = "image_delete" THEN "instance_delete" ELSE "report"

\* cleanup(): 'lxc image delete <alias>'
CleanupImage ==
    /\ pc = "image_delete"
    /\ cleanups' = cleanups + 1
    /\ \E out \in CommandOutcomes :
         /\ log' = Append(log, Entry("image delete", out, None, None))
         /\ IF out = "raise"
            THEN Crash
            ELSE /\ pc' = AfterDelete(pc, out)
                 /\ UNCHANGED exit_status
    /\ UNCHANGED <<template_url, rootfs_url, template_tarball, rootfs_tarball,
                   os_version, files, result, retry, run_result, printed>>

\* cleanup(): 'lxc delete --force <name>'
CleanupInstance ==
    /\ pc = "instance_delete"
    /\ \E out \in CommandOutcomes :
         /\ log' = Append(log, Entry("delete", out, None, None))
         /\ IF out = "raise"
            THEN Crash
            ELSE /\ pc' = AfterDelete(pc, out)
                 /\ UNCHANGED exit_status
    /\ UNCHANGED <<template_url, rootfs_url, template_tarball, rootfs_tarball,
                   os_version, files, result, retry, run_result, cleanups,
                   printed>>

\* test_lxd_vm: "if result: print PASS, sys.exit(0) else: print FAIL,
\* sys.exit(1)"
Report ==
    /\ pc = "report"
    /\ pc' = "exited"
    /\ printed' = IF run_result = "True" THEN "PASS" ELSE "FAIL"
    /\ exit_status' = IF run_result = "True" THEN 0 ELSE 1
    /\ UNCHANGED <<template_url, rootfs_url, template_tarball, rootfs_tarball,
                   os_version, files, result, retry, run_result, cleanups,
                   log>>

Next ==
    \/ Construct
    \/ SetupInit
    \/ ResolveTemplate
    \/ ResolveRootfs
    \/ InsertImages
    \/ RetryCopy
    \/ Launch
    \/ StartInstance
    \/ ListInstances
    \/ Exec
    \/ CleanupImage
    \/ CleanupInstance
    \/ Report

Spec == Init /\ [][Next]_vars

\* The run under the assumption that the interpreter keeps executing: a
\* command or fetch that has been issued returns, and the sequential program
\* then takes its next step.
FairSpec == Spec /\ WF_vars(Next)

(***************************************************************************)
(* Vocabulary of the properties.                                           *)
(***************************************************************************)
ProvisioningOps ==
    {"lxd init", "image import", "image copy", "launch", "start", "list",
     "exec"}

CleanupOps == {"image delete", "delete"}

\* setup() has returned to start_vm and the run has not crashed since.
SetupDone ==
    pc \in {"launch", "start", "list", "exec", "image_delete",
            "instance_delete", "report", "exited"}

\* Entry i of the log is a fetch that did not yield a tarball.
FetchFailed(i) == log[i].op = "fetch" /\ log[i].out # "written"

\* The outcomes of the issued 'lxc image copy' attempts, in order.
CopyOuts == SelectSeq([i \in 1..Len(log) |-> log[i]],
                      LAMBDA e : e.op = "image copy")

\* C1 (cleanup-always): in every run that has ended, by sys.exit or by an
\* uncaught exception, cleanup() was executed exactly once.
C1_CleanupExactlyOnce ==
    pc \in {"exited", "crashed"} => cleanups = 1

\* C2: after a fetch that failed no import, copy, launch, start, list or
\* exec command is issued, and a run with a failed fetch reports FAIL.
C2_FailedDownloadAborts ==
    /\ \A i, j \in 1..Len(log) :
         (i < j /\ FetchFailed(i)) =>
             log[j].op \notin (ProvisioningOps \ {"lxd init"})
    /\ (pc = "exited" /\ \E i \in 1..Len(log) : FetchFailed(i)) =>
           printed = "FAIL"

\* C3: on the remote-catalog path 'lxc image copy' is issued at most 3
\* times; an attempt is issued only after every earlier attempt failed;
\* the local-pair path issues none; setup returns failure exactly when 3
\* attempts were made and all failed; and after two failures and a success
\* the next step of the run is the launch.
C3_CopyRetryBudget ==
    /\ Len(CopyOuts) <= 3
    /\ \A i \in 1..Len(CopyOuts) :
         i < Len(CopyOuts) => CopyOuts[i].out = "fail"
    /\ LocalPair => Len(CopyOuts) = 0
    /\ (~LocalPair /\ SetupDone) =>
         /\ Len(CopyOuts) >= 1
         /\ result = (CopyOuts[Len(CopyOuts)].out = "ok")
         /\ ~result <=> (/\ Len(CopyOuts) = 3
                         /\ \A i \in 1..3 : CopyOuts[i].out = "fail")
    /\ (/\ Len(CopyOuts) = 3
        /\ CopyOuts[1].out = "fail"
        /\ CopyOuts[2].out = "fail"
        /\ CopyOuts[3].out = "ok") =>
         /\ log[Len(log)].op = "image copy" => pc = "launch"
         /\ \A i \in 1..(Len(log) - 1) :
              log[i].op = "image copy" /\ log[i + 1].op # "image copy" =>
                  log[i + 1].op = "launch"

\* C3 witness: two failed copies, a successful third one, and the launch.
C3_Witness ==
    /\ Len(CopyOuts) = 3
    /\ CopyOuts[1].out = "fail"
    /\ CopyOuts[2].out = "fail"
    /\ CopyOuts[3].out = "ok"
    /\ Count("launch") = 1

\* C4: when the start command succeeded, the probing was reached and every
\* probe failed, start_vm has issued exactly floor(60 / 5) = 12 probes when
\* it returns.
C4_TwelveProbesOnFailure ==
    (/\ run_result # "unset"
     /\ \E i \in Issued("start") : log[i].out = "ok"
     /\ \E i \in Issued("list") : log[i].out = "ok"
     /\ \A i \in Issued("exec") : log[i].out = "fail") =>
        Count("exec") = 60 \div 5

\* C5: a probe that exits 0 is the last probe: start_vm returns True on it
\* and only the commands of cleanup follow.
C5_FirstSuccessfulProbeEnds ==
    \A i \in Issued("exec") :
        log[i].out = "ok" =>
            /\ run_result = "True"
            /\ \A j \in 1..Len(log) : j > i => log[j].op \in CleanupOps

\* C5 witness: a run that ended after its probe exited 0.
C5_Witness ==
    /\ pc = "exited"
    /\ \E i \in Issued("exec") : log[i].out = "ok"
    /\ printed = "PASS"

\* Both locators are bare filesystem paths of files that exist.
BothExistingLocalPaths ==
    /\ template_url.kind = "path"
    /\ rootfs_url.kind = "path"
    /\ template_url.path \in files
    /\ rootfs_url.path \in files

\* C6: with template and rootfs both given as paths of existing local
\* files, no fetch is invoked, no copy is issued, and setup issues the
\* import exactly once, with the two given paths.
C6_LocalPathsUsedDirectly ==
    BothExistingLocalPaths =>
        /\ Count("fetch") = 0
        /\ Count("image copy") = 0
        /\ Count("image import") <= 1
        /\ SetupDone => Count("image import") = 1
        /\ \A i \in Issued("image import") :
             log[i].a = template_url /\ log[i].b = rootfs_url

\* C7 (download-idempotence): a step of setup that handles a locator whose
\* derived filename is already a file in /tmp invokes no fetch and records
\* the cached path as the tarball.
C7_CachedNotFetched ==
    [][/\ (pc = "template" /\ template_url # None
             /\ isfile(filename(template_url))) =>
            (log' = log /\ files' = files
               /\ template_tarball' = filename(template_url))
       /\ (pc = "rootfs" /\ rootfs_url # None
             /\ isfile(filename(rootfs_url))) =>
            (log' = log /\ files' = files
               /\ rootfs_tarball' = filename(rootfs_url))]_vars

\* C7 witness: both locators were found in the cache; nothing was fetched.
C7_Witness ==
    /\ pc = "insert"
    /\ template_url # None
    /\ rootfs_url # None
    /\ template_tarball = filename(template_url)
    /\ rootfs_tarball = filename(rootfs_url)
    /\ Count("fetch") = 0

\* C8: a delete of cleanup is issued only after start_vm has returned, and
\* after a delete of cleanup only deletes of cleanup are issued.
C8_CleanupAfterVerification ==
    /\ (\E i \in 1..Len(log) : log[i].op \in CleanupOps) =>
           run_result # "unset"
    /\ \A i, j \in 1..Len(log) :
         (i < j /\ log[i].op \in CleanupOps) => log[j].op \in CleanupOps

\* C8 witness: the run reached the probe, start_vm returned, and both
\* deletes of cleanup were issued.
C8_Witness ==
    /\ Count("exec") = 1
    /\ Count("image delete") = 1
    /\ Count("delete") = 1
    /\ pc = "exited"

\* C9: an image-delete that exited, with any status, is followed by the
\* instance-delete; a delete that exits nonzero does not crash the run;
\* when cleanup has returned both deletes were issued once; and the line
\* printed is PASS exactly when the probe exited 0, whatever the deletes did.
C9_CleanupIssuesBothDeletes ==
    /\ \A i \in Issued("image delete") :
         log[i].out # "raise" =>
             IF i = Len(log) THEN pc = "instance_delete"
             ELSE log[i + 1].op = "delete"
    /\ \A i \in Issued("delete") :
         log[i].out # "raise" => pc \in {"report", "exited"}
    /\ pc \in {"report", "exited"} =>
           Count("image delete") = 1 /\ Count("delete") = 1
    /\ pc = "exited" =>
           (printed = "PASS" <=> \E i \in Issued("exec") : log[i].out = "ok")
    /\ pc = "exited" =>
           (printed = "FAIL" <=> ~\E i \in Issued("exec") : log[i].out = "ok")

\* C9 witness: the start succeeded, the probe failed, both deletes failed,
\* and the run ended with FAIL.
C9_Witness ==
    /\ pc = "exited"
    /\ printed = "FAIL"
    /\ \E i \in Issued("start") : log[i].out = "ok"
    /\ \E i \in Issued("exec") : log[i].out = "fail"
    /\ \E i \in Issued("image delete") : log[i].out = "fail"
    /\ \E i \in Issued("delete") : log[i].out = "fail"

\* 'lxd init --auto' was the first command and exited nonzero.
InitFailed == Len(log) >= 1 /\ log[1].op = "lxd init" /\ log[1].out = "fail"

\* C10: after a failed 'lxd init --auto' setup still goes on to the
\* locators and issues the import or the copy before it returns, and a run
\* in which everything after the init succeeded ends with PASS and status 0.
C10_InitFailureNotFatal ==
    InitFailed =>
        /\ pc \notin {"construct", "lxd_init"}
        /\ (Len(log) = 1 /\ pc # "crashed") =>
               pc \in {"template", "rootfs", "insert"}
        /\ SetupDone => Count("image import") + Count("image copy") >= 1
        /\ (pc = "exited"
              /\ \A j \in 2..Len(log) : log[j].out \in {"ok", "written"}) =>
               (printed = "PASS" /\ exit_status = 0)

\* C10 witness: the init failed and the run ended with PASS.
C10_Witness ==
    /\ InitFailed
    /\ pc = "exited"
    /\ printed = "PASS"

\* C11: with template and rootfs both given the import is issued at most
\* once, exactly once when setup has returned, and no copy is issued; after
\* an import that exited nonzero start_vm returns False, neither launch nor
\* start is issued, and the run reports FAIL.
C11_LocalPairSingleImport ==
    (template_url # None /\ rootfs_url # None) =>
        /\ Count("image import") <= 1
        /\ Count("image copy") = 0
        /\ SetupDone => Count("image import") = 1
        /\ \A i \in Issued("image import") :
             log[i].out = "fail" =>
                 /\ Count("launch") = 0
                 /\ Count("start") = 0
                 /\ run_result = "False"
                 /\ pc = "exited" => (printed = "FAIL" /\ exit_status = 1)

\* C11 witness: both tarballs were resolved, the import failed, and the run
\* ended.
C11_Witness ==
    /\ truthy(template_tarball)
    /\ truthy(rootfs_tarball)
    /\ \E i \in Issued("image import") : log[i].out = "fail"
    /\ pc = "exited"

\* C12: after a launch that exited nonzero no start, list or exec is
\* issued; after a start that exited nonzero no list or exec is issued; in
\* both cases start_vm returns False, cleanup() is the next thing called,
\* and the run reports FAIL.
C12_FailFastLaunchStart ==
    /\ \A i \in Issued("launch") :
         log[i].out = "fail" =>
             Count("start") = 0 /\ Count("list") = 0 /\ Count("exec") = 0
    /\ \A i \in Issued("start") :
         log[i].out = "fail" => Count("list") = 0 /\ Count("exec") = 0
    /\ \A i \in Issued("launch") \cup Issued("start") :
         log[i].out = "fail" =>
             /\ run_result = "False"
             /\ IF i = Len(log) THEN pc = "image_delete" /\ cleanups = 0
                ELSE log[i + 1].op = "image delete" /\ cleanups = 1
             /\ pc = "exited" => (printed = "FAIL" /\ exit_status = 1)

\* C12 witness: the launch succeeded, the start failed, and the run ended
\* after cleanup.
C12_Witness ==
    /\ \E i \in Issued("launch") : log[i].out = "ok"
    /\ \E i \in Issued("start") : log[i].out = "fail"
    /\ cleanups = 1
    /\ pc = "exited"

\* C13: the instance is stopped in every state between a successful create
\* command and the start command, and a successful start command finds the
\* instance stopped and leaves it running.
C13_CreatedStopped ==
    /\ ((\E i \in Issued("launch") : log[i].out = "ok")
          /\ Count("start") = 0 /\ Count("delete") = 0) =>
           InstanceAfter(Len(log)) = "stopped"
    /\ \A i \in Issued("start") :
         log[i].out = "ok" =>
             /\ InstanceAfter(i - 1) = "stopped"
             /\ InstanceAfter(i) = "running"

\* The import and copy commands of the log that exited 0.
ImagesCreated ==
    {i \in Issued("image import") \cup Issued("image copy") :
         log[i].out = "ok"}

\* C14: at most one import or copy has succeeded, no import or copy is
\* issued after one that succeeded, and the launch is issued at most once.
C14_AtMostOneImageAndInstance ==
    /\ Cardinality(ImagesCreated) <= 1
    /\ \A i \in ImagesCreated :
         \A j \in 1..Len(log) :
             j > i => log[j].op \notin {"image import", "image copy"}
    /\ Count("launch") <= 1

\* C14 witness: a copy failed, the retry succeeded, and the instance was
\* launched.
C14_Witness ==
    /\ Len(CopyOuts) = 2
    /\ CopyOuts[1].out = "fail"
    /\ Cardinality(ImagesCreated) = 1
    /\ \E i \in Issued("launch") : log[i].out = "ok"

\* The number of locators setup has dealt with at the current position.
LocatorsHandled ==
    IF pc \in {"construct", "lxd_init", "template"} THEN 0
    ELSE (IF template_url # None THEN 1 ELSE 0)
         + (IF pc # "rootfs" /\ rootfs_url # None THEN 1 ELSE 0)

\* What the step of setup that handles the locator url has to do to the
\* tarball field, whose value after the step is tarball: a step that
\* fetched records the filename when the fetch wrote the file, which is
\* then on disk, and records False otherwise, also when the fetch returned
\* without error; a step that did not fetch found the file on disk.
ResolvedProperly(url, tarball) ==
    IF log' # log
    THEN LET e == log'[Len(log')]
         IN /\ Len(log') = Len(log) + 1
            /\ e.op = "fetch"
            /\ IF e.out = "written"
               THEN tarball = filename(url) /\ filename(url).path \in files'
               ELSE tarball = False /\ result' = FALSE
    ELSE /\ tarball = filename(url)
         /\ isfile(filename(url))
         /\ files' = files

\* C15: a tarball field that holds a path holds the filename derived from
\* its locator and that file is on disk, so every path the import command
\* is given names a file on disk; the path was found on disk before any
\* fetch or is on disk after the fetch; a fetch that did not leave the file
\* gives False, whether it raised or returned; and at most one fetch is
\* invoked per locator handled.
C15_TarballExists ==
    /\ [](/\ truthy(template_tarball) =>
               (template_tarball = filename(template_url)
                  /\ isfile(template_tarball))
          /\ truthy(rootfs_tarball) =>
               (rootfs_tarball = filename(rootfs_url)
                  /\ isfile(rootfs_tarball))
          /\ \A i \in Issued("image import") :
               /\ log[i].a = template_tarball
               /\ log[i].b = rootfs_tarball
               /\ truthy(log[i].a) => isfile(log[i].a)
               /\ truthy(log[i].b) => isfile(log[i].b)
          /\ Count("fetch") <= LocatorsHandled)
    /\ [][/\ (pc = "template" /\ template_url # None) =>
               ResolvedProperly(template_url, template_tarball')
          /\ (pc = "rootfs" /\ rootfs_url # None) =>
               ResolvedProperly(rootfs_url, rootfs_tarball')]_vars

\* C15 witness: the fetch of the template returned without leaving the
\* file and was not repeated, the rootfs was fetched, and the import was
\* issued.
C15_Witness ==
    /\ Count("fetch") = 2
    /\ \E i \in Issued("fetch") : log[i].out = "lost"
    /\ template_tarball = False
    /\ truthy(rootfs_tarball)
    /\ Count("image import") = 1

\* The import and copy attempts of the log.
ImageAttempts == Issued("image import") \cup Issued("image copy")

\* The last import/copy attempt, the launch, the start, the listing and the
\* probe were all issued and all exited 0.
AllDecidingOk ==
    /\ \E i \in ImageAttempts :
         /\ log[i].out = "ok"
         /\ \A j \in ImageAttempts : j <= i
    /\ \A op \in {"launch", "start", "list", "exec"} :
         \E i \in Issued(op) : log[i].out = "ok"

\* C16: a run that has reached sys.exit printed PASS and exits with 0 when
\* the last import/copy attempt, the launch, the start, the listing and the
\* probe all exited 0, and printed FAIL and exits with 1 otherwise; the
\* outcomes of the init, of the fetches and of the deletes play no part.
C16_ResultDeterminedByCommands ==
    pc = "exited" =>
        IF AllDecidingOk
        THEN printed = "PASS" /\ exit_status = 0
        ELSE printed = "FAIL" /\ exit_status = 1

\* C16 witness: a run that printed PASS although the init, a fetch and both
\* deletes failed.
C16_Witness ==
    /\ pc = "exited"
    /\ printed = "PASS"
    /\ InitFailed
    /\ \E i \in 1..Len(log) : FetchFailed(i)
    /\ \A i \in Issued("image delete") \cup Issued("delete") :
         log[i].out = "fail"

\* The external commands of the log.
Commands == {i \in 1..Len(log) : log[i].op # "fetch"}

\* C17: every run ends, at sys.exit or by an uncaught exception, the latter
\* only when a command raised instead of returning an exit status; and in
\* every state at most 2 fetches and at most 10 commands were issued: 1 init,
\* 3 import/copy attempts, 1 launch, 1 start, 1 list, 1 exec, 2 deletes.
C17_Terminates ==
    /\ <>(pc \in {"exited", "crashed"})
    /\ [](pc = "crashed" => \E i \in Commands : log[i].out = "raise")
    /\ [](/\ Count("fetch") <= 2
          /\ Cardinality(Commands) <= 10
          /\ Count("lxd init") <= 1
          /\ Count("image import") + Count("image copy") <= 3
          /\ Count("launch") <= 1
          /\ Count("start") <= 1
          /\ Count("list") <= 1
          /\ Count("exec") <= 1
          /\ Count("image delete") + Count("delete") <= 2)

\* C17 witness: a run that ended at sys.exit after 2 fetches and 8 commands.
C17_Witness ==
    /\ pc = "exited"
    /\ Count("fetch") = 2
    /\ Cardinality(Commands) = 8
    /\ \A i \in Commands : log[i].out # "raise"
====
